---- MODULE Spec2Model ----
(***************************************************************************)
(* SimpleVector<Type> over ArrayPtr<Type> (array_ptr.h + simple_vector.h), *)
(* instantiated with Type = int.  Two vector objects, "a" and "b", live    *)
(* over a heap of array blocks.  Every public operation is one atomic      *)
(* step.  Positions (iterators) are pairs <block, index>.  Indices are     *)
(* 0-based as in the source; blocks are TLA+ sequences (slot k is d[k+1]). *)
(*                                                                         *)
(* Undefined behaviour (an access outside the block, an invalid iterator   *)
(* range) is followed one step only: the step either stops the program     *)
(* (status "crashed") or goes on with the stray writes lost and the stray  *)
(* reads yielding an arbitrary value (status "ub"); no step is taken from  *)
(* either, nor from a failed assert (status "assert") or std::terminate    *)
(* (status "terminated").  `new Type[n]` leaves the n ints indeterminate:  *)
(* the block is filled with an arbitrary value g; or it throws             *)
(* std::bad_alloc.  After each call the caller looks at what it returned   *)
(* or threw (call) and proceeds to the next call.  In a run of PushBack    *)
(* calls on vectors that start empty (SpecPushBack), pushed keeps the      *)
(* values pushed so far.                                                   *)
(***************************************************************************)
EXTENDS Integers, Sequences, FiniteSets, TLC

VARIABLES vec, heap, status, call, pushed

vars == <<vec, heap, status, call, pushed>>

\* ------------------------------------------------------------------ bounds
\* The heap holds MaxHeap elements: a call that would leave more than that
\* allocated is not made.
MaxHeap == 4

\* ------------------------------------------------------------- the universe
VecIds == {"a", "b"}
Values == {0, 1}
BufIds == {1, 2, 3}
\* Type() for Type = int
Default == 0
\* size_t arithmetic wraps; the modulus stands for 2^64
SizeModulus == 2 ^ 30
InitLists == UNION {[1..n -> Values] : n \in 0..2}

\* ------------------------------------------------------------------ ArrayPtr
\* the address the allocator hands out: the lowest block not in use
FreshId(h) == CHOOSE id \in BufIds : ~h[id].live /\ \A j \in BufIds : ~h[j].live => id <= j

\* explicit ArrayPtr(size_t size): nullptr (0) for size 0, else new Type[size]
ArrayPtrNew(h, n, g) ==
    IF n = 0 THEN [heap |-> h, ptr |-> 0]
    ELSE LET id == FreshId(h)
         IN [heap |-> [h EXCEPT ![id] = [live |-> TRUE, data |-> [k \in 1..n |-> g]]],
             ptr |-> id]

\* a destructor without its delete[]
ArrayPtrDeleteNothing(h, p) == h

\* ~ArrayPtr: delete[] raw_ptr_
ArrayPtrDelete(h, p) ==
    IF p = 0 THEN h ELSE [h EXCEPT ![p] = [live |-> FALSE, data |-> <<>>]]

\* the array raw_ptr_ points to (nothing for nullptr)
Mem(h, p) == IF p = 0 THEN <<>> ELSE h[p].data

\* the array after its slots were assigned
Store(h, p, d) == IF p = 0 THEN h ELSE [h EXCEPT ![p].data = d]

\* ------------------------------------------------------- <algorithm> on arrays
\* a non-empty range [first, last) that leaves the array d
RangeOob(d, first, last) == first < last /\ last > Len(d)

\* std::copy / std::move / std::copy_backward / std::move_backward of
\* src[first, last) to dst[at, ...): for int a move is a copy.  Slots outside
\* dst are not written; slots outside src read as g.
CopyRange(src, first, last, dst, at, g) ==
    [k \in 1..Len(dst) |->
        LET j == (k - 1) - at + first
        IN IF first <= j /\ j < last
           THEN (IF j < Len(src) THEN src[j + 1] ELSE g)
           ELSE dst[k]]

\* std::fill(first, last, x) and SimpleVector::fill on d[first, last)
fill(d, first, last, x) ==
    [k \in 1..Len(d) |-> IF first <= k - 1 /\ k - 1 < last THEN x ELSE d[k]]

\* items_[index] = x
Assign(d, index, x) == fill(d, index, index + 1, x)

Max(x, y) == IF x >= y THEN x ELSE y

\* ------------------------------------------------------------- SimpleVector
NoVector == [alive |-> FALSE, items |-> 0, size |-> 0, capacity |-> 0]
\* SimpleVector() noexcept = default
EmptyVector == [alive |-> TRUE, items |-> 0, size |-> 0, capacity |-> 0]

NoHandle == [buf |-> -1, idx |-> 0]
Handle(p, i) == [buf |-> p, idx |-> i]

\* the heap before the first allocation
EmptyHeap == [id \in BufIds |-> [live |-> FALSE, data |-> <<>>]]

\* The call that has just ended, for the caller to look at: its name and
\* arguments, the position (ret) or truth value (res) it returned or the
\* exception it threw (exc), and the objects and the heap as they were when it
\* was made.
NoOp == [op |-> "none", v |-> "a", w |-> "a", i |-> 0, x |-> 0, ret |-> NoHandle,
         res |-> [eq |-> FALSE, ne |-> FALSE, lt |-> FALSE, gt |-> FALSE,
                  le |-> FALSE, ge |-> FALSE],
         exc |-> "none", vec |-> [u \in VecIds |-> EmptyVector], heap |-> EmptyHeap]

\* GetSize, GetCapacity, the owned array
GetSize(v) == vec[v].size
GetCapacity(v) == vec[v].capacity
Items(v) == Mem(heap, vec[v].items)

\* the outcome of one call: the objects, the heap, whether it ran into
\* undefined behaviour, the position it returns
Outcome(V, H, ub, ret) == [vec |-> V, heap |-> H, ub |-> ub, ret |-> ret]

TypeOK ==
    /\ vec \in [VecIds -> [alive : BOOLEAN, items : {0} \cup BufIds,
                           size : 0..SizeModulus, capacity : 0..(2 * MaxHeap)]]
    /\ \A id \in BufIds : heap[id].live \in BOOLEAN /\ Len(heap[id].data) <= MaxHeap
    /\ status \in {"ok", "ub", "crashed", "assert", "terminated"}
    /\ pushed.on \in BOOLEAN
    /\ \A v \in VecIds : Len(pushed.of[v]) <= MaxHeap + 1

\* no PushBack made, and none being recorded
NotPushed == [on |-> FALSE, of |-> [v \in VecIds |-> <<>>]]

Init ==
    /\ vec = [v \in VecIds |-> EmptyVector]
    /\ heap = EmptyHeap
    /\ status = "ok"
    /\ call = NoOp
    /\ pushed = NotPushed

\* the number of elements allocated in heap h
RECURSIVE HeapUse(_, _)
HeapUse(h, ids) ==
    IF ids = {} THEN 0
    ELSE LET id == CHOOSE j \in ids : TRUE
         IN (IF h[id].live THEN Len(h[id].data) ELSE 0) + HeapUse(h, ids \ {id})

\* the caller is between two calls
Ready == status = "ok" /\ call.op = "none"

\* The caller has looked at what the call returned and goes on.
Proceed ==
    /\ status = "ok" /\ call.op # "none"
    /\ call' = NoOp
    /\ UNCHANGED <<vec, heap, status, pushed>>

\* the values pushed, the call rec made
Pushed(rec) ==
    IF pushed.on /\ rec.op \in {"PushBackCopy", "PushBackMove"}
    THEN [pushed EXCEPT !.of[rec.v] = Append(@, rec.x)]
    ELSE pushed

\* A call ends: normally, or after undefined behaviour in one of the two ways.
Return(r, rec) ==
    /\ HeapUse(r.heap, BufIds) <= MaxHeap
    /\ call' = [rec EXCEPT !.ret = r.ret, !.vec = vec, !.heap = heap]
    /\ pushed' = Pushed(rec)
    /\ \/ /\ vec' = r.vec
          /\ heap' = r.heap
          /\ status' = IF r.ub THEN "ub" ELSE "ok"
       \/ /\ r.ub
          /\ UNCHANGED <<vec, heap>>
          /\ status' = "crashed"

\* An exception leaves a noexcept function: std::terminate ends the program.
Terminate(rec) ==
    /\ call' = [rec EXCEPT !.vec = vec, !.heap = heap]
    /\ status' = "terminated"
    /\ UNCHANGED <<vec, heap, pushed>>

\* An assert of <cassert> fails: the program is aborted.
AssertFails(rec) ==
    /\ call' = [rec EXCEPT !.vec = vec, !.heap = heap]
    /\ status' = "assert"
    /\ UNCHANGED <<vec, heap, pushed>>

\* A call ends by throwing exc, which the caller catches: the objects are as
\* the code had left them (V) when it threw.
Throw(V, rec, exc) ==
    /\ call' = [rec EXCEPT !.exc = exc, !.vec = vec, !.heap = heap]
    /\ vec' = V
    /\ UNCHANGED <<heap, status, pushed>>

\* new Type[n] in ArrayPtr(size_t) throws std::bad_alloc and the call lets it
\* through; V is the objects as the call had left them by then (in a
\* constructor, the object does not come to be).
AllocFails(V, n, rec) ==
    /\ n > 0
    /\ Throw(V, rec, "bad_alloc")

\* void Clear() noexcept
ClearOp(V, H, v) ==
    Outcome([V EXCEPT ![v].size = 0], H, FALSE, NoHandle)

Clear(v) ==
    /\ Ready /\ vec[v].alive
    /\ Return(ClearOp(vec, heap, v), [NoOp EXCEPT !.op = "Clear", !.v = v])

\* ~SimpleVector(): Clear(), then ~ArrayPtr frees the array
DestroyOp(V, H, v) ==
    Outcome([V EXCEPT ![v] = NoVector], ArrayPtrDelete(H, V[v].items), FALSE, NoHandle)

Destroy(v) ==
    /\ Ready /\ vec[v].alive
    /\ Return(DestroyOp(vec, heap, v), [NoOp EXCEPT !.op = "Destroy", !.v = v])

\* SimpleVector() noexcept = default, on a destroyed object's storage
DefaultConstruct(v) ==
    /\ Ready /\ ~vec[v].alive
    /\ Return(Outcome([vec EXCEPT ![v] = EmptyVector], heap, FALSE, NoHandle),
              [NoOp EXCEPT !.op = "DefaultConstruct", !.v = v])

\* SimpleVector(size_t size, const Type& value); SimpleVector(size_t size)
\* delegates to it with value = Type()
SizedOp(V, H, v, n, x, g) ==
    LET t == ArrayPtrNew(H, n, g)
        d == fill(Mem(t.heap, t.ptr), 0, n, x)
    IN Outcome([V EXCEPT ![v] = [alive |-> TRUE, items |-> t.ptr, size |-> n,
                                 capacity |-> n]],
               Store(t.heap, t.ptr, d), FALSE, NoHandle)

SizedConstruct(v, n, x) ==
    /\ Ready /\ ~vec[v].alive
    /\ \/ \E g \in Values :
            Return(SizedOp(vec, heap, v, n, x, g),
                   [NoOp EXCEPT !.op = "SizedConstruct", !.v = v, !.i = n, !.x = x])
       \/ AllocFails(vec, n, [NoOp EXCEPT !.op = "SizedConstruct", !.v = v, !.i = n, !.x = x])

\* SimpleVector(std::initializer_list<Type> init)
InitListOp(V, H, v, init, g) ==
    LET n == Len(init)
        t == ArrayPtrNew(H, n, g)
        d == CopyRange(init, 0, n, Mem(t.heap, t.ptr), 0, g)
    IN Outcome([V EXCEPT ![v] = [alive |-> TRUE, items |-> t.ptr, size |-> n,
                                 capacity |-> n]],
               Store(t.heap, t.ptr, d), FALSE, NoHandle)

InitListConstruct(v, init) ==
    /\ Ready /\ ~vec[v].alive
    /\ \/ \E g \in Values :
            Return(InitListOp(vec, heap, v, init, g),
                   [NoOp EXCEPT !.op = "InitListConstruct", !.v = v, !.i = Len(init)])
       \/ AllocFails(vec, Len(init),
                     [NoOp EXCEPT !.op = "InitListConstruct", !.v = v, !.i = Len(init)])

\* SimpleVector(const SimpleVector& other): items_(other.capacity_),
\* size_(other.size_); capacity_ keeps its default member initializer (0)
CopyConstructOp(V, H, v, w, g) ==
    LET o == V[w]
        src == Mem(H, o.items)
        t == ArrayPtrNew(H, o.capacity, g)
        d0 == Mem(t.heap, t.ptr)
        d == CopyRange(src, 0, o.size, d0, 0, g)
    IN Outcome([V EXCEPT ![v] = [alive |-> TRUE, items |-> t.ptr, size |-> o.size,
                                 capacity |-> 0]],
               Store(t.heap, t.ptr, d),
               RangeOob(src, 0, o.size) \/ RangeOob(d0, 0, o.size), NoHandle)

CopyConstruct(v, w) ==
    /\ Ready /\ ~vec[v].alive /\ vec[w].alive
    /\ \/ \E g \in Values :
            Return(CopyConstructOp(vec, heap, v, w, g),
                   [NoOp EXCEPT !.op = "CopyConstruct", !.v = v, !.w = w])
       \/ AllocFails(vec, vec[w].capacity, [NoOp EXCEPT !.op = "CopyConstruct", !.v = v, !.w = w])

\* void swap(SimpleVector& other) noexcept
swapOp(V, v, w) ==
    [V EXCEPT ![v] = [V[v] EXCEPT !.size = V[w].size, !.capacity = V[w].capacity,
                                  !.items = V[w].items],
              ![w] = [V[w] EXCEPT !.size = V[v].size, !.capacity = V[v].capacity,
                                  !.items = V[v].items]]

swap(v, w) ==
    /\ Ready /\ vec[v].alive /\ vec[w].alive
    /\ Return(Outcome(swapOp(vec, v, w), heap, FALSE, NoHandle),
              [NoOp EXCEPT !.op = "swap", !.v = v, !.w = w])

\* SimpleVector(SimpleVector&& other): items_(other.capacity_), then swap(other)
MoveConstructOp(V, H, v, w, g) ==
    LET t == ArrayPtrNew(H, V[w].capacity, g)
        V1 == [V EXCEPT ![v] = [alive |-> TRUE, items |-> t.ptr, size |-> 0,
                                capacity |-> 0]]
    IN Outcome(swapOp(V1, v, w), t.heap, FALSE, NoHandle)

MoveConstruct(v, w) ==
    /\ Ready /\ ~vec[v].alive /\ vec[w].alive
    /\ \/ \E g \in Values :
            Return(MoveConstructOp(vec, heap, v, w, g),
                   [NoOp EXCEPT !.op = "MoveConstruct", !.v = v, !.w = w])
       \/ AllocFails(vec, vec[w].capacity, [NoOp EXCEPT !.op = "MoveConstruct", !.v = v, !.w = w])

\* void Reserve(size_t new_capacity)
ReserveOp(V, H, v, k, g) ==
    LET o == V[v]
        old == Mem(H, o.items)
        t == ArrayPtrNew(H, k, g)
        t0 == fill(Mem(t.heap, t.ptr), 0, k, Default)
        t1 == CopyRange(old, 0, o.size, t0, 0, g)
    IN IF k > o.capacity
       THEN Outcome([V EXCEPT ![v].items = t.ptr, ![v].capacity = k],
                    ArrayPtrDelete(Store(t.heap, t.ptr, t1), o.items),
                    RangeOob(old, 0, o.size) \/ RangeOob(t0, 0, o.size), NoHandle)
       ELSE Outcome(V, H, FALSE, NoHandle)

Reserve(v, k) ==
    /\ Ready /\ vec[v].alive
    /\ \/ \E g \in Values :
            Return(ReserveOp(vec, heap, v, k, g),
                   [NoOp EXCEPT !.op = "Reserve", !.v = v, !.i = k])
       \/ /\ k > vec[v].capacity
          /\ AllocFails(vec, k, [NoOp EXCEPT !.op = "Reserve", !.v = v, !.i = k])

\* SimpleVector(ReserveProxyObj object): Reserve(object.GetCapacity())
ReserveConstruct(v, k) ==
    /\ Ready /\ ~vec[v].alive
    /\ \/ \E g \in Values :
            Return(ReserveOp([vec EXCEPT ![v] = EmptyVector], heap, v, k, g),
                   [NoOp EXCEPT !.op = "ReserveConstruct", !.v = v, !.i = k])
       \/ AllocFails(vec, k, [NoOp EXCEPT !.op = "ReserveConstruct", !.v = v, !.i = k])

\* PushBack with new_capacity = capacity_ * 2, the needed size_ + 1 forgotten
PushBackOpDoubling(V, H, v, x, g, copying) ==
    LET o == V[v]
        grow == o.size + 1 > o.capacity
        new_capacity == o.capacity * 2
        old == Mem(H, o.items)
        t == ArrayPtrNew(H, new_capacity, g)
        t0 == IF copying THEN fill(Mem(t.heap, t.ptr), 0, new_capacity, Default)
              ELSE Mem(t.heap, t.ptr)
        t1 == CopyRange(old, 0, o.size, t0, 0, g)
        H1 == IF grow THEN ArrayPtrDelete(Store(t.heap, t.ptr, t1), o.items) ELSE H
        p1 == IF grow THEN t.ptr ELSE o.items
        c1 == IF grow THEN new_capacity ELSE o.capacity
        d1 == Mem(H1, p1)
    IN Outcome([V EXCEPT ![v].items = p1, ![v].capacity = c1, ![v].size = o.size + 1],
               Store(H1, p1, Assign(d1, o.size, x)),
               (grow /\ RangeOob(old, 0, o.size)) \/ o.size >= Len(d1), NoHandle)

\* void PushBack(const Type& item) (copying) and void PushBack(Type&& item)
PushBackOp(V, H, v, x, g, copying) ==
    LET o == V[v]
        grow == o.size + 1 > o.capacity
        new_capacity == Max(o.size + 1, o.capacity * 2)
        old == Mem(H, o.items)
        t == ArrayPtrNew(H, new_capacity, g)
        t0 == IF copying THEN fill(Mem(t.heap, t.ptr), 0, new_capacity, Default)
              ELSE Mem(t.heap, t.ptr)
        t1 == CopyRange(old, 0, o.size, t0, 0, g)
        H1 == IF grow THEN ArrayPtrDelete(Store(t.heap, t.ptr, t1), o.items) ELSE H
        p1 == IF grow THEN t.ptr ELSE o.items
        c1 == IF grow THEN new_capacity ELSE o.capacity
        d1 == Mem(H1, p1)
    IN Outcome([V EXCEPT ![v].items = p1, ![v].capacity = c1, ![v].size = o.size + 1],
               Store(H1, p1, Assign(d1, o.size, x)),
               (grow /\ RangeOob(old, 0, o.size)) \/ o.size >= Len(d1), NoHandle)

PushBackCopy(v, x) ==
    /\ Ready /\ vec[v].alive
    /\ \/ \E g \in Values :
            Return(PushBackOp(vec, heap, v, x, g, TRUE),
                   [NoOp EXCEPT !.op = "PushBackCopy", !.v = v, !.x = x])
       \/ /\ vec[v].size + 1 > vec[v].capacity
          /\ AllocFails(vec, Max(vec[v].size + 1, vec[v].capacity * 2),
                        [NoOp EXCEPT !.op = "PushBackCopy", !.v = v, !.x = x])

PushBackMove(v, x) ==
    /\ Ready /\ vec[v].alive
    /\ \/ \E g \in Values :
            Return(PushBackOp(vec, heap, v, x, g, FALSE),
                   [NoOp EXCEPT !.op = "PushBackMove", !.v = v, !.x = x])
       \/ /\ vec[v].size + 1 > vec[v].capacity
          /\ AllocFails(vec, Max(vec[v].size + 1, vec[v].capacity * 2),
                        [NoOp EXCEPT !.op = "PushBackMove", !.v = v, !.x = x])

\* void Resize(size_t new_size): three ifs in a row, none of them an else
ResizeOp(V, H, v, n, g) ==
    LET o == V[v]
        d0 == Mem(H, o.items)
        \* if (new_size <= size_) { size_ = new_size; }
        s1 == IF n <= o.size THEN n ELSE o.size
        \* if (new_size <= capacity_) { fill(begin() + size_, begin() + size_ + new_size); ... }
        within == n <= o.capacity
        d2 == IF within THEN fill(d0, s1, s1 + n, Default) ELSE d0
        s2 == IF within THEN n ELSE s1
        \* if (new_size > capacity_) { ... }
        grow == n > o.capacity
        new_capacity == Max(n, o.capacity * 2)
        t == ArrayPtrNew(H, new_capacity, g)
        t0 == fill(Mem(t.heap, t.ptr), 0, new_capacity, Default)
        t1 == CopyRange(d2, 0, o.capacity, t0, 0, g)
    IN IF grow
       THEN Outcome([V EXCEPT ![v].items = t.ptr, ![v].size = n,
                              ![v].capacity = new_capacity],
                    ArrayPtrDelete(Store(t.heap, t.ptr, t1), o.items),
                    RangeOob(d2, 0, o.capacity), NoHandle)
       ELSE Outcome([V EXCEPT ![v].size = s2], Store(H, o.items, d2),
                    within /\ RangeOob(d0, s1, s1 + n), NoHandle)

\* the objects when Resize comes to ArrayPtr<Type> temp(new_capacity): the
\* first if has run
ResizeBeforeAlloc(V, v, n) ==
    [V EXCEPT ![v].size = IF n <= V[v].size THEN n ELSE V[v].size]

Resize(v, n) ==
    /\ Ready /\ vec[v].alive
    /\ \/ \E g \in Values :
            Return(ResizeOp(vec, heap, v, n, g),
                   [NoOp EXCEPT !.op = "Resize", !.v = v, !.i = n])
       \/ /\ n > vec[v].capacity
          /\ AllocFails(ResizeBeforeAlloc(vec, v, n), Max(n, vec[v].capacity * 2),
                        [NoOp EXCEPT !.op = "Resize", !.v = v, !.i = n])

\* the position Insert(ConstIterator, const Type&) returns after reallocating:
\* const_cast<Iterator>(pos), the caller's position
InsertCopyReturn(old_items, new_items, index) == Handle(old_items, index)

\* the position Insert(ConstIterator, Type&&) returns: begin() + index
InsertMoveReturn(old_items, new_items, index) == Handle(new_items, index)

\* Iterator Insert(ConstIterator pos, const Type& value) (copying) and
\* Iterator Insert(ConstIterator pos, Type&& value), pos = begin() + i
InsertOp(V, H, v, i, x, g, copying) ==
    LET o == V[v]
        d0 == Mem(H, o.items)
        spare == o.capacity > o.size
        \* no reallocation: shift [pos, end) right by one, assign items_[index]
        d1 == CopyRange(d0, i, o.size, d0, i + 1, g)
        d2 == Assign(d1, i, x)
        \* reallocation
        new_capacity == IF o.capacity = 0 THEN 1 ELSE o.capacity * 2
        t == ArrayPtrNew(H, new_capacity, g)
        t0 == Mem(t.heap, t.ptr)
        t1 == CopyRange(d0, 0, i, t0, 0, g)
        t2 == Assign(t1, i, x)
        t3 == CopyRange(d0, i, o.size, t2, i + 1, g)
    IN IF spare
       THEN Outcome([V EXCEPT ![v].size = o.size + 1], Store(H, o.items, d2),
                    RangeOob(d0, i + 1, o.size + 1) \/ i >= Len(d0),
                    Handle(o.items, i))
       ELSE Outcome([V EXCEPT ![v].items = t.ptr, ![v].capacity = new_capacity,
                              ![v].size = o.size + 1],
                    ArrayPtrDelete(Store(t.heap, t.ptr, t3), o.items),
                    \/ RangeOob(d0, 0, o.size)
                    \/ i >= Len(t0)
                    \/ RangeOob(t0, i + 1, o.size + 1),
                    IF copying THEN InsertCopyReturn(o.items, t.ptr, i)
                    ELSE InsertMoveReturn(o.items, t.ptr, i))

\* The caller passes a pos within [begin(), end()], so that
\* assert(pos >= begin() && pos <= end()) holds.
InsertCopy(v, i, x) ==
    /\ Ready /\ vec[v].alive /\ i <= vec[v].size
    /\ \/ \E g \in Values :
            Return(InsertOp(vec, heap, v, i, x, g, TRUE),
                   [NoOp EXCEPT !.op = "InsertCopy", !.v = v, !.i = i, !.x = x])
       \/ /\ ~(vec[v].capacity > vec[v].size)
          /\ AllocFails(vec, IF vec[v].capacity = 0 THEN 1 ELSE vec[v].capacity * 2,
                        [NoOp EXCEPT !.op = "InsertCopy", !.v = v, !.i = i, !.x = x])

InsertMove(v, i, x) ==
    /\ Ready /\ vec[v].alive /\ i <= vec[v].size
    /\ \/ \E g \in Values :
            Return(InsertOp(vec, heap, v, i, x, g, FALSE),
                   [NoOp EXCEPT !.op = "InsertMove", !.v = v, !.i = i, !.x = x])
       \/ /\ ~(vec[v].capacity > vec[v].size)
          /\ AllocFails(vec, IF vec[v].capacity = 0 THEN 1 ELSE vec[v].capacity * 2,
                        [NoOp EXCEPT !.op = "InsertMove", !.v = v, !.i = i, !.x = x])

\* Iterator Erase(ConstIterator pos), pos = begin() + i.  With i + 1 > size_
\* the second std::move gets a range whose first lies behind its last.
EraseOp(V, H, v, i, g) ==
    LET o == V[v]
        d0 == Mem(H, o.items)
        t == ArrayPtrNew(H, o.capacity, g)
        t0 == Mem(t.heap, t.ptr)
        t1 == CopyRange(d0, 0, i, t0, 0, g)
        t2 == CopyRange(d0, i + 1, o.size, t1, i, g)
    IN Outcome([V EXCEPT ![v].items = t.ptr, ![v].size = (o.size - 1) % SizeModulus],
               ArrayPtrDelete(Store(t.heap, t.ptr, t2), o.items),
               \/ RangeOob(d0, 0, i) \/ RangeOob(t0, 0, i)
               \/ RangeOob(d0, i + 1, o.size) \/ RangeOob(t0, i, o.size - 1)
               \/ i + 1 > o.size,
               Handle(t.ptr, i))

\* pos dereferenceable
Erase(v, i) ==
    /\ Ready /\ vec[v].alive /\ i < vec[v].size
    /\ \/ \E g \in Values :
            Return(EraseOp(vec, heap, v, i, g),
                   [NoOp EXCEPT !.op = "Erase", !.v = v, !.i = i])
       \/ AllocFails(vec, vec[v].capacity, [NoOp EXCEPT !.op = "Erase", !.v = v, !.i = i])

\* void PopBack() noexcept: assert(items_); Erase(end());
\* The assertion looks at the array, not at the size.  call.i is the index of
\* the position handed to Erase.
PopBack(v) ==
    /\ Ready /\ vec[v].alive
    /\ IF vec[v].items = 0
       THEN AssertFails([NoOp EXCEPT !.op = "PopBack", !.v = v])
       ELSE \/ \E g \in Values :
                 Return([EraseOp(vec, heap, v, vec[v].size, g) EXCEPT !.ret = NoHandle],
                        [NoOp EXCEPT !.op = "PopBack", !.v = v, !.i = vec[v].size])
            \/ /\ vec[v].capacity > 0
               /\ Terminate([NoOp EXCEPT !.op = "PopBack", !.v = v, !.i = vec[v].size,
                                         !.exc = "bad_alloc"])

\* operator=(const SimpleVector& rhs) and operator=(SimpleVector&& rhs): the
\* same body, std::copy in the one and std::move in the other
AssignOp(V, H, v, w, g) ==
    LET rhs == V[w]
        src == Mem(H, rhs.items)
        t == ArrayPtrNew(H, rhs.capacity, g)
        t0 == Mem(t.heap, t.ptr)
        t1 == CopyRange(src, 0, rhs.size, t0, 0, g)
    IN IF v # w
       THEN Outcome([V EXCEPT ![v].items = t.ptr, ![v].size = rhs.size,
                              ![v].capacity = rhs.capacity],
                    ArrayPtrDelete(Store(t.heap, t.ptr, t1), V[v].items),
                    RangeOob(src, 0, rhs.size) \/ RangeOob(t0, 0, rhs.size), NoHandle)
       ELSE Outcome(V, H, FALSE, NoHandle)

CopyAssign(v, w) ==
    /\ Ready /\ vec[v].alive /\ vec[w].alive
    /\ \/ \E g \in Values :
            Return(AssignOp(vec, heap, v, w, g),
                   [NoOp EXCEPT !.op = "CopyAssign", !.v = v, !.w = w])
       \/ /\ v # w
          /\ AllocFails(vec, vec[w].capacity, [NoOp EXCEPT !.op = "CopyAssign", !.v = v, !.w = w])

MoveAssign(v, w) ==
    /\ Ready /\ vec[v].alive /\ vec[w].alive
    /\ \/ \E g \in Values :
            Return(AssignOp(vec, heap, v, w, g),
                   [NoOp EXCEPT !.op = "MoveAssign", !.v = v, !.w = w])
       \/ /\ v # w
          /\ AllocFails(vec, vec[w].capacity, [NoOp EXCEPT !.op = "MoveAssign", !.v = v, !.w = w])

\* At checking the index against the capacity
AtThrowsByCapacity(size, capacity, index) == index >= capacity

\* if (index >= size_) { throw std::out_of_range("index >= size"); }
AtThrows(size, capacity, index) == index >= size

\* Type& At(size_t index): call.ret is the reference returned, call.x the
\* element it refers to
At(v, i) ==
    /\ Ready /\ vec[v].alive
    /\ IF AtThrows(vec[v].size, vec[v].capacity, i)
       THEN Throw(vec, [NoOp EXCEPT !.op = "At", !.v = v, !.i = i], "out_of_range")
       ELSE \E g \in Values :
              Return(Outcome(vec, heap, i >= Len(Items(v)), Handle(vec[v].items, i)),
                     [NoOp EXCEPT !.op = "At", !.v = v, !.i = i,
                                  !.x = IF i < Len(Items(v)) THEN Items(v)[i + 1] ELSE g])

\* slot k of array d as a read sees it
Read(d, k, g) == IF k < Len(d) THEN d[k + 1] ELSE g

\* operator==: std::equal(lhs.begin(), lhs.end(), rhs.begin())
Equal(L, lsize, R, g) == \A k \in 0..(lsize - 1) : Read(L, k, g) = Read(R, k, g)

\* std::equal reaches a slot outside one of the arrays
EqualOob(L, lsize, R, g) ==
    \E k \in 0..(lsize - 1) :
        /\ k >= Len(L) \/ k >= Len(R)
        /\ \A j \in 0..(k - 1) : Read(L, j, g) = Read(R, j, g)

\* lhs == rhs and lhs != rhs (the negation of the same std::equal call)
Compare(v, w) ==
    /\ Ready /\ vec[v].alive /\ vec[w].alive
    /\ \E g \in Values :
         LET L == Mem(heap, vec[v].items)
             R == Mem(heap, vec[w].items)
         IN Return(Outcome(vec, heap, EqualOob(L, vec[v].size, R, g), NoHandle),
                   [NoOp EXCEPT !.op = "Compare", !.v = v, !.w = w,
                                !.res.eq = Equal(L, vec[v].size, R, g),
                                !.res.ne = ~Equal(L, vec[v].size, R, g)])

\* a comparison that ranks the shorter sequence first
RECURSIVE SizeFirstCompare(_, _, _, _, _, _)
SizeFirstCompare(L, lsize, R, rsize, k, g) ==
    IF lsize # rsize THEN lsize < rsize
    ELSE IF k >= lsize THEN FALSE
    ELSE IF Read(L, k, g) < Read(R, k, g) THEN TRUE
    ELSE IF Read(R, k, g) < Read(L, k, g) THEN FALSE
    ELSE SizeFirstCompare(L, lsize, R, rsize, k + 1, g)

\* std::lexicographical_compare(first1, last1, first2, last2) from slot k on:
\* for (; first1 != last1 && first2 != last2; ++first1, ++first2)
\*   { if (*first1 < *first2) return true; if (*first2 < *first1) return false; }
\* return first1 == last1 && first2 != last2;
RECURSIVE lexicographical_compare(_, _, _, _, _, _)
lexicographical_compare(L, lsize, R, rsize, k, g) ==
    IF k >= lsize \/ k >= rsize THEN k >= lsize /\ k < rsize
    ELSE IF Read(L, k, g) < Read(R, k, g) THEN TRUE
    ELSE IF Read(R, k, g) < Read(L, k, g) THEN FALSE
    ELSE lexicographical_compare(L, lsize, R, rsize, k + 1, g)

\* std::lexicographical_compare reaches a slot outside one of the arrays
LexOob(L, lsize, R, rsize, g) ==
    \E k \in 0..(lsize - 1) :
        /\ k < rsize
        /\ k >= Len(L) \/ k >= Len(R)
        /\ \A j \in 0..(k - 1) : Read(L, j, g) = Read(R, j, g)

\* lhs < rhs, lhs > rhs (rhs < lhs), lhs <= rhs (!(lhs > rhs)) and
\* lhs >= rhs (!(lhs < rhs))
Order(v, w) ==
    /\ Ready /\ vec[v].alive /\ vec[w].alive
    /\ \E g \in Values :
         LET L == Mem(heap, vec[v].items)
             R == Mem(heap, vec[w].items)
             less == lexicographical_compare(L, vec[v].size, R, vec[w].size, 0, g)
             greater == lexicographical_compare(R, vec[w].size, L, vec[v].size, 0, g)
         IN Return(Outcome(vec, heap, LexOob(L, vec[v].size, R, vec[w].size, g), NoHandle),
                   [NoOp EXCEPT !.op = "Order", !.v = v, !.w = w,
                                !.res.lt = less, !.res.gt = greater,
                                !.res.le = ~greater, !.res.ge = ~less])

\* The caller evaluates lhs < rhs, lhs == rhs, lhs > rhs and lhs <= rhs, and
\* their negations lhs >= rhs and lhs != rhs, on the same two vectors.
Relate(v, w) ==
    /\ Ready /\ vec[v].alive /\ vec[w].alive
    /\ \E g \in Values :
         LET L == Mem(heap, vec[v].items)
             R == Mem(heap, vec[w].items)
             equal == Equal(L, vec[v].size, R, g)
             less == lexicographical_compare(L, vec[v].size, R, vec[w].size, 0, g)
             greater == lexicographical_compare(R, vec[w].size, L, vec[v].size, 0, g)
         IN Return(Outcome(vec, heap,
                           \/ EqualOob(L, vec[v].size, R, g)
                           \/ LexOob(L, vec[v].size, R, vec[w].size, g),
                           NoHandle),
                   [NoOp EXCEPT !.op = "Relate", !.v = v, !.w = w,
                                !.res.eq = equal, !.res.ne = ~equal,
                                !.res.lt = less, !.res.gt = greater,
                                !.res.le = ~greater, !.res.ge = ~less])

Next ==
    \/ \E v \in VecIds : Destroy(v)
    \/ \E v \in VecIds : DefaultConstruct(v)
    \/ \E v \in VecIds, n \in 0..MaxHeap, x \in Values : SizedConstruct(v, n, x)
    \/ \E v \in VecIds, init \in InitLists : InitListConstruct(v, init)
    \/ \E v \in VecIds, w \in VecIds : CopyConstruct(v, w)
    \/ \E v \in VecIds, w \in VecIds : MoveConstruct(v, w)
    \/ \E v \in VecIds, k \in 0..MaxHeap : ReserveConstruct(v, k)
    \/ \E v \in VecIds, w \in VecIds : swap(v, w)
    \/ \E v \in VecIds, k \in 0..MaxHeap : Reserve(v, k)
    \/ \E v \in VecIds, x \in Values : PushBackCopy(v, x)
    \/ \E v \in VecIds, x \in Values : PushBackMove(v, x)
    \/ \E v \in VecIds, n \in 0..MaxHeap : Resize(v, n)
    \/ \E v \in VecIds, i \in 0..MaxHeap, x \in Values : InsertCopy(v, i, x)
    \/ \E v \in VecIds, i \in 0..MaxHeap, x \in Values : InsertMove(v, i, x)
    \/ \E v \in VecIds, i \in 0..MaxHeap : Erase(v, i)
    \/ \E v \in VecIds : PopBack(v)
    \/ \E v \in VecIds : Clear(v)
    \/ \E v \in VecIds, w \in VecIds : CopyAssign(v, w)
    \/ \E v \in VecIds, w \in VecIds : MoveAssign(v, w)
    \/ \E v \in VecIds, w \in VecIds : Compare(v, w)
    \/ \E v \in VecIds, i \in 0..MaxHeap : At(v, i)
    \/ \E v \in VecIds, w \in VecIds : Order(v, w)
    \/ \E v \in VecIds, w \in VecIds : Relate(v, w)
    \/ Proceed

Spec == Init /\ [][Next]_vars

\* Runs of PushBack calls alone, on vectors that start empty: a, then b, made
\* by SimpleVector<int> v(Reserve(k)), with capacity 0 for k = 0.
InitPushBack ==
    \E ka \in 0..MaxHeap, kb \in 0..MaxHeap :
        LET ra == ReserveOp([v \in VecIds |-> EmptyVector], EmptyHeap, "a", ka, Default)
            rb == ReserveOp(ra.vec, ra.heap, "b", kb, Default)
        IN /\ HeapUse(rb.heap, BufIds) <= MaxHeap
           /\ vec = rb.vec
           /\ heap = rb.heap
           /\ status = "ok"
           /\ call = NoOp
           /\ pushed = [NotPushed EXCEPT !.on = TRUE]

NextPushBack ==
    \/ \E v \in VecIds, x \in Values : PushBackCopy(v, x)
    \/ \E v \in VecIds, x \in Values : PushBackMove(v, x)
    \/ Proceed

SpecPushBack == InitPushBack /\ [][NextPushBack]_vars

\* ------------------------------------------------------------------ claims
\* what the last call worked on: its object, the object's fields and array
\* before the call, and the array the object owns now
Was(v) == call.vec[v]
WasItems(v) == Mem(call.heap, call.vec[v].items)

\* arrays d and e hold the same n elements at [0, n)
SameElements(d, e, n) ==
    /\ Len(d) >= n /\ Len(e) >= n
    /\ \A k \in 1..n : d[k] = e[k]

\* C1: in every state reached by calls whose preconditions are met, every
\* vector has 0 <= GetSize() <= GetCapacity().
C1_SizeWithinCapacity ==
    status = "ok" =>
        \A v \in VecIds : vec[v].alive => 0 <= GetSize(v) /\ GetSize(v) <= GetCapacity(v)

\* C2: copy construction gives the new vector the source's size, the source's
\* capacity and the source's elements in order, and leaves the source as it was.
C2_CopyConstructEqualsSource ==
    call.op = "CopyConstruct" /\ call.exc = "none" =>
        /\ status = "ok"
        /\ GetSize(call.v) = Was(call.w).size
        /\ GetCapacity(call.v) = Was(call.w).capacity
        /\ SameElements(Items(call.v), WasItems(call.w), Was(call.w).size)
        /\ vec[call.w] = Was(call.w)
        /\ Items(call.w) = WasItems(call.w)

\* C3: move construction gives the new vector the source's size, capacity and
\* elements, and leaves the source with size = capacity = 0 and no array.
C3_MoveConstructEmptiesSource ==
    call.op = "MoveConstruct" /\ call.exc = "none" =>
        /\ status = "ok"
        /\ GetSize(call.v) = Was(call.w).size
        /\ GetCapacity(call.v) = Was(call.w).capacity
        /\ SameElements(Items(call.v), WasItems(call.w), Was(call.w).size)
        /\ GetSize(call.w) = 0
        /\ GetCapacity(call.w) = 0
        /\ vec[call.w].items = 0

\* C4: a = std::move(b) with a and b distinct leaves a with b's size and b's
\* former elements in order, and leaves b at size 0.
C4_MoveAssignEmptiesSource ==
    call.op = "MoveAssign" /\ call.exc = "none" /\ call.v # call.w =>
        /\ status = "ok"
        /\ GetSize(call.v) = Was(call.w).size
        /\ SameElements(Items(call.v), WasItems(call.w), Was(call.w).size)
        /\ GetSize(call.w) = 0

\* C5: a == b is true exactly when the sizes are equal and the elements at
\* [0, size) are pairwise equal, and a != b is the negation of that.
C5_EqualIffSameSizeAndElements ==
    call.op = "Compare" =>
        LET same == /\ GetSize(call.v) = GetSize(call.w)
                    /\ SameElements(Items(call.v), Items(call.w), GetSize(call.v))
        IN /\ status = "ok"
           /\ call.res.eq = same
           /\ call.res.ne = ~same

\* C6: Insert at index i in [0, size], by either overload, adds 1 to the size,
\* puts the value at index i, keeps the elements [0, i) where they were and
\* moves the elements [i, size) to [i + 1, size + 1) in order.
C6_InsertPlacesValue ==
    call.op \in {"InsertCopy", "InsertMove"} /\ call.exc = "none" =>
        LET n == Was(call.v).size
            old == WasItems(call.v)
            new == Items(call.v)
        IN /\ status = "ok"
           /\ GetSize(call.v) = n + 1
           /\ Len(old) >= n /\ Len(new) >= n + 1
           /\ new[call.i + 1] = call.x
           /\ \A k \in 0..(call.i - 1) : new[k + 1] = old[k + 1]
           /\ \A k \in call.i..(n - 1) : new[k + 2] = old[k + 1]

\* C7: the position Insert returns, by either overload and with or without a
\* reallocation, is slot i of the array the vector owns after the call.
C7_InsertReturnsInsertedPosition ==
    call.op \in {"InsertCopy", "InsertMove"} /\ call.exc = "none" =>
        /\ status = "ok"
        /\ call.ret = Handle(vec[call.v].items, call.i)

\* C8: Resize(n) with size < n <= capacity fills exactly the slots [size, n)
\* with the default value, sets size = n, keeps the array and the capacity,
\* and writes no slot at an index >= n.
C8_ResizeWithinCapacity ==
    call.op = "Resize" /\ Was(call.v).size < call.i /\ call.i <= Was(call.v).capacity =>
        LET old == WasItems(call.v)
            new == Items(call.v)
        IN /\ status = "ok"
           /\ GetSize(call.v) = call.i
           /\ GetCapacity(call.v) = Was(call.v).capacity
           /\ vec[call.v].items = Was(call.v).items
           /\ Len(new) = Len(old)
           /\ \A k \in 0..(Len(old) - 1) :
                new[k + 1] = IF Was(call.v).size <= k /\ k < call.i THEN Default
                             ELSE old[k + 1]

\* C9: Resize(n) with n > capacity sets size = n and capacity =
\* max(n, 2 * old capacity), keeps the elements [0, old size) in order and
\* leaves the default value in every element of [old size, n).
C9_ResizeBeyondCapacity ==
    call.op = "Resize" /\ call.exc = "none" /\ call.i > Was(call.v).capacity =>
        LET m == Was(call.v).size
            old == WasItems(call.v)
            new == Items(call.v)
        IN /\ status = "ok"
           /\ GetSize(call.v) = call.i
           /\ GetCapacity(call.v) = Max(call.i, 2 * Was(call.v).capacity)
           /\ Len(new) >= call.i
           /\ SameElements(new, old, m)
           /\ \A k \in m..(call.i - 1) : new[k + 1] = Default

\* C10: Resize(n) with n <= size only sets size = n: the capacity, the array
\* and the content of every slot of the array stay as they were.
C10_ResizeDownOnlySetsSize ==
    call.op = "Resize" /\ call.i <= Was(call.v).size =>
        /\ status = "ok"
        /\ GetSize(call.v) = call.i
        /\ GetCapacity(call.v) = Was(call.v).capacity
        /\ vec[call.v].items = Was(call.v).items
        /\ Items(call.v) = WasItems(call.v)

\* C11: Erase at index i < size takes 1 from the size, keeps the capacity,
\* keeps the elements [0, i) in place, moves the elements [i + 1, size) one
\* slot down in order, and returns slot i of the array the vector owns now.
C11_EraseRemovesOne ==
    call.op = "Erase" /\ call.exc = "none" =>
        LET n == Was(call.v).size
            old == WasItems(call.v)
            new == Items(call.v)
        IN /\ status = "ok"
           /\ GetSize(call.v) = n - 1
           /\ GetCapacity(call.v) = Was(call.v).capacity
           /\ Len(old) >= n /\ Len(new) >= n - 1
           /\ \A k \in 0..(call.i - 1) : new[k + 1] = old[k + 1]
           /\ \A k \in (call.i + 1)..(n - 1) : new[k] = old[k + 1]
           /\ call.ret = Handle(vec[call.v].items, call.i)

\* C12: PopBack on a vector of size n >= 1 hands Erase a position at an index
\* below n, and leaves size n - 1, the capacity as it was and the elements
\* [0, n - 1) as they were, as Erase at index n - 1 does.
C12_PopBackErasesLast ==
    call.op = "PopBack" /\ call.exc = "none" /\ Was(call.v).size >= 1 =>
        LET n == Was(call.v).size
        IN /\ call.i < n
           /\ status = "ok"
           /\ GetSize(call.v) = n - 1
           /\ GetCapacity(call.v) = Was(call.v).capacity
           /\ SameElements(Items(call.v), WasItems(call.v), n - 1)

\* C13: PopBack on a vector of size 0, whatever its capacity, ends in the
\* failed assertion with the size still 0.
C13_PopBackOnEmptyAsserts ==
    call.op = "PopBack" /\ Was(call.v).size = 0 =>
        /\ status = "assert"
        /\ GetSize(call.v) = 0

\* C14: in a run of PushBack calls (either overload) on a vector that starts
\* empty, the size is the number of calls that returned and the elements are
\* the pushed values in push order; the capacity is never below the size; a call
\* reallocates only when size = capacity, the capacity then becomes
\* max(size + 1, 2 * capacity) (1 for capacity 0), and otherwise stays.
C14_PushBackRun ==
    /\ status = "ok"
    /\ \A v \in VecIds :
          /\ GetSize(v) = Len(pushed.of[v])
          /\ GetSize(v) <= GetCapacity(v)
          /\ SameElements(Items(v), pushed.of[v], GetSize(v))
    /\ call.op \in {"PushBackCopy", "PushBackMove"} /\ call.exc = "none" =>
          LET o == Was(call.v)
              reallocated == vec[call.v].items # o.items
          IN /\ reallocated <=> o.size = o.capacity
             /\ reallocated =>
                   GetCapacity(call.v) = (IF o.size + 1 >= 2 * o.capacity THEN o.size + 1
                                          ELSE 2 * o.capacity)
             /\ ~reallocated => GetCapacity(call.v) = o.capacity
             /\ o.capacity = 0 => GetCapacity(call.v) = 1

\* three values pushed onto a vector that started with capacity 0; the third
\* call found size = capacity = 2 and reallocated to capacity 4
C14_Witness ==
    /\ pushed.on /\ status = "ok"
    /\ call.op = "PushBackMove"
    /\ pushed.of[call.v] = <<1, 0, 1>>
    /\ Was(call.v).size = 2 /\ Was(call.v).capacity = 2
    /\ GetCapacity(call.v) = 4

\* C15: Insert, by either overload, on a vector with no spare capacity leaves
\* the capacity at max(size + 1, 2 * capacity), in an array with room for the
\* size + 1 elements.
C15_InsertGrowth ==
    /\ call.op \in {"InsertCopy", "InsertMove"} /\ call.exc = "none"
    /\ Was(call.v).capacity <= Was(call.v).size
    =>
        LET o == Was(call.v)
        IN /\ status = "ok"
           /\ GetCapacity(call.v) = (IF o.size + 1 >= 2 * o.capacity THEN o.size + 1
                                      ELSE 2 * o.capacity)
           /\ Len(Items(call.v)) >= o.size + 1

\* C16: Reserve(k) with k <= capacity changes nothing; with k > capacity it
\* sets the capacity to k and keeps the size and the elements [0, size) in
\* order; a vector constructed from Reserve(k) has size 0 and capacity k.
C16_Reserve ==
    /\ call.op = "Reserve" /\ call.i <= Was(call.v).capacity =>
          /\ status = "ok"
          /\ vec[call.v] = Was(call.v)
          /\ Items(call.v) = WasItems(call.v)
    /\ call.op = "Reserve" /\ call.exc = "none" /\ call.i > Was(call.v).capacity =>
          /\ status = "ok"
          /\ GetCapacity(call.v) = call.i
          /\ GetSize(call.v) = Was(call.v).size
          /\ SameElements(Items(call.v), WasItems(call.v), Was(call.v).size)
    /\ call.op = "ReserveConstruct" /\ call.exc = "none" =>
          /\ status = "ok"
          /\ GetSize(call.v) = 0
          /\ GetCapacity(call.v) = call.i

\* C17: At(i) throws out_of_range exactly when i >= size, also when i is below
\* the capacity, and otherwise returns a reference to the element at index i;
\* either way the objects and their arrays are as before the call.
C17_AtChecked ==
    call.op = "At" =>
        /\ status = "ok"
        /\ call.exc \in {"none", "out_of_range"}
        /\ call.exc = "out_of_range" <=> call.i >= Was(call.v).size
        /\ call.exc = "none" =>
              /\ call.ret = Handle(vec[call.v].items, call.i)
              /\ call.i < Len(Items(call.v))
              /\ call.x = Items(call.v)[call.i + 1]
        /\ vec = call.vec
        /\ heap = call.heap

\* At(1) on a vector of size 1 and capacity 3 has thrown
C17_Witness ==
    /\ call.op = "At" /\ call.exc = "out_of_range"
    /\ call.i = 1 /\ GetSize(call.v) = 1 /\ GetCapacity(call.v) = 3

\* C18: when the allocation of the new array fails in PushBack, Insert,
\* Reserve, Resize, Erase or an assignment, the call ends with every vector's
\* size, capacity, array and elements as they were before the call.
C18_AllocationFailureKeepsState ==
    /\ call.exc = "bad_alloc"
    /\ call.op \in {"PushBackCopy", "PushBackMove", "InsertCopy", "InsertMove", "Reserve",
                    "Resize", "Erase", "CopyAssign", "MoveAssign"}
    =>
        /\ status = "ok"
        /\ vec = call.vec
        /\ heap = call.heap

\* C19: a = b by copy with a and b distinct leaves a with b's size, b's
\* capacity and b's elements in order, in an array that is not b's, leaves b
\* as it was and frees the array a had; a = a changes nothing.
C19_CopyAssign ==
    /\ call.op = "CopyAssign" /\ call.exc = "none" /\ call.v # call.w =>
          /\ status = "ok"
          /\ GetSize(call.v) = Was(call.w).size
          /\ GetCapacity(call.v) = Was(call.w).capacity
          /\ SameElements(Items(call.v), WasItems(call.w), Was(call.w).size)
          /\ vec[call.v].items # vec[call.w].items \/ vec[call.v].items = 0
          /\ vec[call.w] = Was(call.w)
          /\ Items(call.w) = WasItems(call.w)
          /\ Was(call.v).items # 0 => ~heap[Was(call.v).items].live
    /\ call.op = "CopyAssign" /\ call.v = call.w =>
          /\ status = "ok"
          /\ vec = call.vec
          /\ heap = call.heap

\* the elements [0, size) of vector v
Live(v) == SubSeq(Items(v), 1, GetSize(v))

\* sequence s comes before sequence t in lexicographic order: they differ
\* first at a place where s holds the lesser element, or s is a strict prefix
\* of t
LexLess(s, t) ==
    \/ \E k \in 1..Len(s) :
          /\ k <= Len(t)
          /\ s[k] < t[k]
          /\ \A j \in 1..(k - 1) : s[j] = t[j]
    \/ /\ Len(s) < Len(t)
       /\ \A j \in 1..Len(s) : s[j] = t[j]

\* C20: a < b is true exactly when a's live elements come before b's in
\* lexicographic order (the first differing element decides; a strict prefix
\* is less), a > b is b < a, a <= b is not (b < a), a >= b is not (a < b).
C20_LessIsLexicographic ==
    call.op = "Order" =>
        /\ status = "ok"
        /\ GetSize(call.v) <= Len(Items(call.v))
        /\ GetSize(call.w) <= Len(Items(call.w))
        /\ call.res.lt = LexLess(Live(call.v), Live(call.w))
        /\ call.res.gt = LexLess(Live(call.w), Live(call.v))
        /\ call.res.le = ~LexLess(Live(call.w), Live(call.v))
        /\ call.res.ge = ~LexLess(Live(call.v), Live(call.w))

\* [1] < [0, 0] has been found false, and [1] > [0, 0] true
C20_Witness ==
    /\ call.op = "Order" /\ status = "ok"
    /\ GetSize(call.v) = 1 /\ GetSize(call.w) = 2
    /\ Live(call.v) = <<1>> /\ Live(call.w) = <<0, 0>>
    /\ ~call.res.lt /\ call.res.gt

\* the vectors that hold array id now, and those that held it before the call
Owners(id) == {v \in VecIds : vec[v].alive /\ vec[v].items = id}
OwnersBefore(id) == {v \in VecIds : Was(v).alive /\ Was(v).items = id}

\* C21: whatever calls were made, every array is held by at most one vector,
\* an array is allocated exactly while a vector holds it (an array that was
\* replaced, or whose vector was destroyed, is freed, and no vector holds a
\* freed array), and an array a call frees was held by one vector, so that it
\* is freed once.
C21_BuffersOwnedOnce ==
    \A id \in BufIds :
        /\ Cardinality(Owners(id)) <= 1
        /\ heap[id].live <=> Owners(id) # {}
        /\ call.op # "none" /\ call.heap[id].live /\ ~heap[id].live =>
              Cardinality(OwnersBefore(id)) = 1

\* a = std::move(b) has replaced a's array by a new one and freed the old
\* one, while b holds its own
C21_Witness ==
    /\ call.op = "MoveAssign" /\ call.exc = "none" /\ status = "ok"
    /\ Was(call.v).items # 0 /\ ~heap[Was(call.v).items].live
    /\ vec[call.v].items # 0 /\ vec[call.w].items # 0
    /\ vec[call.v].items # vec[call.w].items
    /\ heap[vec[call.v].items].live /\ heap[vec[call.w].items].live

\* C22: of a < b, a == b and a > b exactly one is true, and a <= b is true if
\* and only if a < b or a == b is.
C22_Trichotomy ==
    call.op = "Relate" =>
        /\ status = "ok"
        /\ Cardinality({r \in {"lt", "eq", "gt"} : call.res[r]}) = 1
        /\ call.res.le <=> (call.res.lt \/ call.res.eq)

\* the calls that may have to grow the array, and whether the last call had to
Grows ==
    LET o == Was(call.v)
    IN \/ call.op \in {"PushBackCopy", "PushBackMove"} /\ o.size + 1 > o.capacity
       \/ call.op \in {"InsertCopy", "InsertMove"} /\ ~(o.capacity > o.size)
       \/ call.op = "Resize" /\ call.i > o.capacity /\ call.i > o.size
       \/ call.op = "Reserve" /\ call.i > o.capacity

\* C23: no PushBack, Insert, Erase, PopBack, Reserve, Resize or Clear call
\* lowers the capacity of its vector: Clear, Erase, PopBack, Resize(n) with
\* n <= size and Reserve(k) with k <= capacity leave it as it was, and a call
\* that grows the array leaves it greater than it was.
C23_CapacityNeverDecreases ==
    /\ call.op \in {"PushBackCopy", "PushBackMove", "InsertCopy", "InsertMove", "Erase",
                    "PopBack", "Reserve", "Resize", "Clear"}
    /\ call.exc = "none"
    =>
    LET o == Was(call.v)
    IN /\ GetCapacity(call.v) >= o.capacity
       /\ \/ call.op \in {"Clear", "Erase", "PopBack"}
          \/ call.op = "Resize" /\ call.i <= o.size
          \/ call.op = "Reserve" /\ call.i <= o.capacity
          => GetCapacity(call.v) = o.capacity
       /\ Grows => GetCapacity(call.v) > o.capacity

\* C24: after PopBack on a vector of size n >= 1 whose last element was x, the
\* size is n - 1 and slot n - 1 of the vector's array, the one cend() now
\* designates, still holds x.
C24_PopBackKeepsValue ==
    call.op = "PopBack" /\ call.exc = "none" /\ Was(call.v).size >= 1 =>
        LET n == Was(call.v).size
        IN /\ status = "ok"
           /\ GetSize(call.v) = n - 1
           /\ Len(WasItems(call.v)) >= n /\ Len(Items(call.v)) >= n
           /\ Items(call.v)[n] = WasItems(call.v)[n]
====
